---------------------------- MODULE Spec2Model ----------------------------
(***************************************************************************)
(* A model of three tools of the dot-scripts repository:                   *)
(*   serve-here   (node/serve-here.js)   the static file server's request  *)
(*                                       handler and directory listing     *)
(*   ping-hosts   (node/ping-hosts.js)   the parallel reachability check   *)
(*   free-memory  (bash/free-memory.sh)  the swap guard, the usage bars    *)
(* Strings the code inspects character by character (URLs, paths, file     *)
(* names) are sequences of one-character strings.                          *)
(***************************************************************************)
EXTENDS Integers, Sequences, FiniteSets, TLC

VARIABLES
  \* ---- serve-here ----
  fs,        \* the filesystem: path key (sequence of names) -> entry
  pc,        \* where the request in flight is: idle/stat/readIndex/readFile/done/crashed
  reqUrl,    \* req.url of the request, as received
  statErr,   \* the code of the error fs.stat handed its callback, "" if none
  urlPath,   \* the handler's urlPath (decoded, query-stripped), a string
  filePath,  \* the handler's filePath = path.join(rootDir, urlPath)
  mimeType,  \* the handler's mimeType for a regular file
  fsOps,     \* the filesystem calls made for the request: set of [op, path]
  events,    \* the order of the request's visible steps: log / resolve / respond
  res,       \* the responses sent for the request (writeHead + end)
  \* ---- ping-hosts ----
  ppc,       \* main()'s position: start/pinging/display/summary/exited/returned
  hosts,     \* the host list main() settled on
  ping,      \* per host index: "running", "ok" (exit 0) or "fail"
  output,    \* lines written by console.log / console.error, in order
  exitCode,  \* process.exit code, -1 while running
  \* ---- free-memory ----
  mpc,       \* free-memory main()'s position
  ostype,    \* $OSTYPE
  flags,     \* [cache, swap]: do_cache, do_swap
  sysAvail,  \* MemAvailable of the machine right now
  sysSwap,   \* swap in use on the machine right now
  mem_available, \* the script's variable, as last read by get_memory_info
  swap_used,     \* the script's variable, as last read by get_memory_info
  ran,       \* commands executed so far, in order
  \* ---- free-memory, draw_bar ----
  bpc,       \* draw_bar's position: start/drawn
  percent,   \* $1, a percentage with one decimal, in tenths (873 is 87.3)
  filled,    \* the number of filled cells of the bar
  color      \* the colour of the filled cells

serveVars == <<fs, pc, reqUrl, statErr, urlPath, filePath, mimeType, fsOps, events, res>>
pingVars  == <<ppc, hosts, ping, output, exitCode>>
memVars   == <<mpc, ostype, flags, sysAvail, sysSwap, mem_available, swap_used, ran>>
barVars   == <<bpc, percent, filled, color>>
vars      == <<serveVars, pingVars, memVars, barVars>>

\* a step of one tool leaves the other tools' state alone
ServeOnly == UNCHANGED <<pingVars, memVars, barVars>>
PingOnly  == UNCHANGED <<serveVars, memVars, barVars>>
MemOnly   == UNCHANGED <<serveVars, pingVars, barVars>>
BarOnly   == UNCHANGED <<serveVars, pingVars, memVars>>

---------------------------------------------------------------------------
(* Bounds of the model *)

\* a request URL is the concatenation of at most MaxParts pieces of UrlParts
MaxParts == 3
\* ping-hosts checks at most MaxHosts hosts
MaxHosts == 3
\* memory quantities range over 0..MaxMem units
MaxMem == 4
\* draw_bar is given percentages from 0.0 to MaxTenths / 10
MaxTenths == 1000

---------------------------------------------------------------------------
(* Strings *)

RECURSIVE Flatten(_)
\* the concatenation of a sequence of strings
Flatten(ss) == IF ss = <<>> THEN <<>> ELSE Head(ss) \o Flatten(Tail(ss))

\* String.prototype.startsWith at position i (1-based)
MatchesAt(s, sub, i) ==
  /\ i + Len(sub) - 1 <= Len(s)
  /\ \A k \in 1..Len(sub) : s[i + k - 1] = sub[k]

\* String.prototype.includes
includes(s, sub) == \E i \in 1..(Len(s) + 1) : MatchesAt(s, sub, i)

\* String.prototype.indexOf, 0 when absent (1-based otherwise)
IndexOf(s, c) ==
  IF \E i \in 1..Len(s) : s[i] = c
  THEN CHOOSE i \in 1..Len(s) : s[i] = c /\ \A j \in 1..(i - 1) : s[j] # c
  ELSE 0

\* the last position of c in s, 0 when absent
LastIndexOf(s, c) ==
  IF \E i \in 1..Len(s) : s[i] = c
  THEN CHOOSE i \in 1..Len(s) : s[i] = c /\ \A j \in (i + 1)..Len(s) : s[j] # c
  ELSE 0

RECURSIVE Split(_, _)
\* String.prototype.split on a one-character separator
Split(s, sep) ==
  LET i == IndexOf(s, sep) IN
  IF i = 0 THEN <<s>>
  ELSE <<SubSeq(s, 1, i - 1)>> \o Split(SubSeq(s, i + 1, Len(s)), sep)

RECURSIVE JoinWith(_, _)
\* Array.prototype.join with a one-character separator
JoinWith(ss, sep) ==
  IF ss = <<>> THEN <<>>
  ELSE IF Len(ss) = 1 THEN ss[1]
  ELSE ss[1] \o <<sep>> \o JoinWith(Tail(ss), sep)

UpperCase == <<"A","B","C","D","E","F","G","H","I","J","K","L","M",
               "N","O","P","Q","R","S","T","U","V","W","X","Y","Z">>
LowerCase == <<"a","b","c","d","e","f","g","h","i","j","k","l","m",
               "n","o","p","q","r","s","t","u","v","w","x","y","z">>
Digits == <<"0","1","2","3","4","5","6","7","8","9">>

\* the 1-based position of c in the sequence t, 0 when absent
PosIn(t, c) == IndexOf(t, c)

\* String.prototype.toLowerCase
toLowerCase(s) ==
  [i \in 1..Len(s) |->
     IF PosIn(UpperCase, s[i]) > 0 THEN LowerCase[PosIn(UpperCase, s[i])] ELSE s[i]]

\* the printable ASCII characters, code 32 first (code 96 as a token)
Ascii ==
  <<" ","!","\"","#","$","%","&","'","(",")","*","+",",","-",".","/",
    "0","1","2","3","4","5","6","7","8","9",":",";","<","=",">","?","@",
    "A","B","C","D","E","F","G","H","I","J","K","L","M","N","O","P","Q",
    "R","S","T","U","V","W","X","Y","Z","[","\\","]","^","_","GRAVE",
    "a","b","c","d","e","f","g","h","i","j","k","l","m","n","o","p","q",
    "r","s","t","u","v","w","x","y","z","{","|","}","~">>

\* the character of a byte below 128; control characters are one opaque token
CharOf(b) == IF b >= 32 /\ b <= 126 THEN Ascii[b - 31] ELSE "CTL"

IsHex(c) == PosIn(Digits, c) > 0 \/ PosIn(SubSeq(LowerCase, 1, 6), c) > 0
              \/ PosIn(SubSeq(UpperCase, 1, 6), c) > 0

HexVal(c) ==
  IF PosIn(Digits, c) > 0 THEN PosIn(Digits, c) - 1
  ELSE IF PosIn(LowerCase, c) > 0 THEN PosIn(LowerCase, c) + 9
  ELSE PosIn(UpperCase, c) + 9

\* is s[i..i+2] a percent escape %XX
IsEscapeAt(s, i) ==
  /\ i + 2 <= Len(s)
  /\ s[i] = "%" /\ IsHex(s[i + 1]) /\ IsHex(s[i + 2])

ByteAt(s, i) == 16 * HexVal(s[i + 1]) + HexVal(s[i + 2])

\* the number of continuation bytes a UTF-8 lead byte announces, -1 if it is none
Continuations(b) ==
  IF b >= 194 /\ b <= 223 THEN 1
  ELSE IF b >= 224 /\ b <= 239 THEN 2
  ELSE IF b >= 240 /\ b <= 244 THEN 3
  ELSE -1

RECURSIVE decodeURIComponent(_)
\* decodeURIComponent: [ok, str]; ok = FALSE is a thrown URIError.
\* A well-formed multi-byte UTF-8 escape sequence decodes to one opaque
\* non-ASCII character token.
decodeURIComponent(s) ==
  IF s = <<>> THEN [ok |-> TRUE, str |-> <<>>]
  ELSE IF Head(s) # "%" THEN
    LET r == decodeURIComponent(Tail(s)) IN
    [ok |-> r.ok, str |-> <<Head(s)>> \o r.str]
  ELSE IF ~IsEscapeAt(s, 1) THEN [ok |-> FALSE, str |-> <<>>]
  ELSE
    LET b == ByteAt(s, 1) IN
    IF b < 128 THEN
      LET r == decodeURIComponent(SubSeq(s, 4, Len(s))) IN
      [ok |-> r.ok, str |-> <<CharOf(b)>> \o r.str]
    ELSE
      LET n == Continuations(b) IN
      IF n < 0 \/ \E k \in 1..n :
                     \/ ~IsEscapeAt(s, 1 + 3 * k)
                     \/ ByteAt(s, 1 + 3 * k) < 128
                     \/ ByteAt(s, 1 + 3 * k) > 191
      THEN [ok |-> FALSE, str |-> <<>>]
      ELSE
        LET r == decodeURIComponent(SubSeq(s, 4 + 3 * n, Len(s))) IN
        [ok |-> r.ok, str |-> <<"U+">> \o r.str]

---------------------------------------------------------------------------
(* Node's path module, POSIX flavour *)

RECURSIVE normalizeString(_, _, _)
\* path.normalize's segment resolution: segs still to read, acc resolved so far
normalizeString(segs, acc, allowAboveRoot) ==
  IF segs = <<>> THEN acc
  ELSE
    LET s == Head(segs) IN
    IF s = <<>> \/ s = <<".">> THEN normalizeString(Tail(segs), acc, allowAboveRoot)
    ELSE IF s = <<".", ".">> THEN
      IF acc # <<>> /\ acc[Len(acc)] # <<".", ".">>
      THEN normalizeString(Tail(segs), SubSeq(acc, 1, Len(acc) - 1), allowAboveRoot)
      ELSE IF allowAboveRoot
      THEN normalizeString(Tail(segs), Append(acc, s), allowAboveRoot)
      ELSE normalizeString(Tail(segs), acc, allowAboveRoot)
    ELSE normalizeString(Tail(segs), Append(acc, s), allowAboveRoot)

\* path.normalize
normalize(p) ==
  IF p = <<>> THEN <<".">>
  ELSE
    LET isAbsolute == p[1] = "/"
        trailingSeparator == p[Len(p)] = "/"
        q == JoinWith(normalizeString(Split(p, "/"), <<>>, ~isAbsolute), "/")
    IN IF q = <<>> THEN
         IF isAbsolute THEN <<"/">>
         ELSE IF trailingSeparator THEN <<".", "/">> ELSE <<".">>
       ELSE
         LET t == IF trailingSeparator THEN q \o <<"/">> ELSE q IN
         IF isAbsolute THEN <<"/">> \o t ELSE t

\* path.join of two arguments: empty arguments are skipped
pathJoin(a, b) ==
  IF a = <<>> /\ b = <<>> THEN <<".">>
  ELSE IF a = <<>> THEN normalize(b)
  ELSE IF b = <<>> THEN normalize(a)
  ELSE normalize(a \o <<"/">> \o b)

RECURSIVE StripTrailing(_)
\* p without its trailing slashes
StripTrailing(p) ==
  IF p # <<>> /\ p[Len(p)] = "/" THEN StripTrailing(SubSeq(p, 1, Len(p) - 1)) ELSE p

\* path.dirname: the scan from the right skips trailing slashes and the base
\* name, and stops at the first slash after them (never looking at index 0)
dirname(p) ==
  IF p = <<>> THEN <<".">>
  ELSE
    LET hasRoot == p[1] = "/"
        cands == {j \in 2..Len(p) :
                    p[j] = "/" /\ \E k \in (j + 1)..Len(p) : p[k] # "/"}
    IN IF cands = {} THEN (IF hasRoot THEN <<"/">> ELSE <<".">>)
       ELSE
         LET j == CHOOSE i \in cands : \A k \in cands : k <= i IN
         IF hasRoot /\ j = 2 THEN <<"/", "/">>
         ELSE SubSeq(p, 1, j - 1)

\* the final path segment, trailing slashes ignored
basename(p) ==
  LET body == StripTrailing(p)
      i == LastIndexOf(body, "/")
  IN SubSeq(body, i + 1, Len(body))

\* path.extname
extname(p) ==
  LET b == basename(p)
      startDot == LastIndexOf(b, ".")
  IN IF startDot = 0 THEN <<>>            \* no dot
     ELSE IF startDot = 1 THEN <<>>       \* a dot file: nothing before the dot
     ELSE IF b = <<".", ".">> THEN <<>>
     ELSE SubSeq(b, startDot, Len(b))

---------------------------------------------------------------------------
(* serve-here: content types *)

\* the extension table, as <<extension, content type>> pairs
MIME_TYPES ==
  << <<<<".","h","t","m","l">>, "text/html">>,
     <<<<".","c","s","s">>, "text/css">>,
     <<<<".","j","s">>, "text/javascript">>,
     <<<<".","j","s","o","n">>, "application/json">>,
     <<<<".","p","n","g">>, "image/png">>,
     <<<<".","j","p","g">>, "image/jpeg">>,
     <<<<".","j","p","e","g">>, "image/jpeg">>,
     <<<<".","g","i","f">>, "image/gif">>,
     <<<<".","s","v","g">>, "image/svg+xml">>,
     <<<<".","i","c","o">>, "image/x-icon">>,
     <<<<".","w","e","b","p">>, "image/webp">>,
     <<<<".","m","p","4">>, "video/mp4">>,
     <<<<".","w","e","b","m">>, "video/webm">>,
     <<<<".","m","p","3">>, "audio/mpeg">>,
     <<<<".","w","a","v">>, "audio/wav">>,
     <<<<".","p","d","f">>, "application/pdf">>,
     <<<<".","t","x","t">>, "text/plain">>,
     <<<<".","x","m","l">>, "application/xml">>,
     <<<<".","w","o","f","f">>, "font/woff">>,
     <<<<".","w","o","f","f","2">>, "font/woff2">>,
     <<<<".","t","t","f">>, "font/ttf">>,
     <<<<".","m","d">>, "text/markdown">> >>

\* MIME_TYPES[ext] || 'application/octet-stream'
lookupMime(ext) ==
  IF \E i \in 1..Len(MIME_TYPES) : MIME_TYPES[i][1] = ext
  THEN MIME_TYPES[CHOOSE i \in 1..Len(MIME_TYPES) : MIME_TYPES[i][1] = ext][2]
  ELSE "application/octet-stream"

\* the content type the handler picks for a regular file at filePath p
mimeTypeOf(p) == lookupMime(toLowerCase(extname(p)))

---------------------------------------------------------------------------
(* The filesystem the server reads.  A path key is the sequence of the     *)
(* names from "/" down; an entry is [kind, mode, data]:                    *)
(*   kind  "dir" | "file" | "badlink" (a symbolic link to nothing)         *)
(*   mode  "ok" | "noaccess" (no permission bit set)                       *)
(*   data  the bytes of a file                                             *)

N_r     == <<"r">>
N_d     == <<"d">>
N_B     == <<"B">>
N_C     == <<"C">>
N_z     == <<"z">>
N_aJPG  == <<"a",".","J","P","G">>
N_bx    == <<"b",".",".","x">>
N_index == <<"i","n","d","e","x",".","h","t","m","l">>

\* the directory the server was started on (options.dir, an absolute path)
rootDir == <<"/">> \o N_r

Dir(m)     == [kind |-> "dir", mode |-> m, data |-> ""]
File(m, d) == [kind |-> "file", mode |-> m, data |-> d]
BadLink    == [kind |-> "badlink", mode |-> "ok", data |-> ""]

\* /r holds the file b..x and the directory d; d holds two directories
\* (B, d) and two files (a.JPG, C)
BaseFs ==
  (<< >> :> Dir("ok")) @@
  (<<N_r>> :> Dir("ok")) @@
  (<<N_r, N_bx>> :> File("ok", "bytes of b..x")) @@
  (<<N_r, N_d>> :> Dir("ok")) @@
  (<<N_r, N_d, N_B>> :> Dir("ok")) @@
  (<<N_r, N_d, N_d>> :> Dir("ok")) @@
  (<<N_r, N_d, N_aJPG>> :> File("ok", "bytes of a.JPG")) @@
  (<<N_r, N_d, N_C>> :> File("ok", "bytes of C"))

\* f with the entry at key k added or replaced
WithEntry(f, k, e) == (k :> e) @@ f
\* f without the entry at key k
WithoutEntry(f, k) == [x \in DOMAIN f \ {k} |-> f[x]]

\* the filesystems of the model: the base tree and one change to it each
FsStates ==
  { BaseFs,
    \* a file outside the served root, at /d
    WithEntry(BaseFs, <<N_d>>, File("ok", "bytes outside the root")),
    \* /r/d/index.html, readable and unreadable
    WithEntry(BaseFs, <<N_r, N_d, N_index>>, File("ok", "bytes of index.html")),
    WithEntry(BaseFs, <<N_r, N_d, N_index>>, File("noaccess", "bytes of index.html")),
    \* a dangling symbolic link /r/d/z
    WithEntry(BaseFs, <<N_r, N_d, N_z>>, BadLink),
    \* /r/d without any permission
    WithEntry(BaseFs, <<N_r, N_d>>, Dir("noaccess")),
    \* /r/d/a.JPG unreadable, and deleted
    WithEntry(BaseFs, <<N_r, N_d, N_aJPG>>, File("noaccess", "bytes of a.JPG")),
    WithoutEntry(BaseFs, <<N_r, N_d, N_aJPG>>) }

\* the key of a path string: its non-empty segments
KeyOf(p) == SelectSeq(Split(p, "/"), LAMBDA s : s # <<>>)

RECURSIVE walk(_, _, _)
\* path resolution by the kernel: the error met on the directories above the
\* last name of key k (from position i), "" if there is none
walk(f, k, i) ==
  IF i >= Len(k) THEN ""
  ELSE
    LET anc == SubSeq(k, 1, i) IN
    IF anc \notin DOMAIN f \/ f[anc].kind = "badlink" THEN "ENOENT"
    ELSE IF f[anc].kind # "dir" THEN "ENOTDIR"
    ELSE IF f[anc].mode = "noaccess" THEN "EACCES"
    ELSE walk(f, k, i + 1)

\* stat(2) on path string p: [err, isDir, key]; stat follows symbolic links
statSync(f, p) ==
  LET k == KeyOf(p)
      trailing == p # <<>> /\ p[Len(p)] = "/"
      e == walk(f, k, 0)
      none == [err |-> "", isDir |-> FALSE, key |-> k]
  IN IF e # "" THEN [none EXCEPT !.err = e]
     ELSE IF k \notin DOMAIN f \/ f[k].kind = "badlink" THEN [none EXCEPT !.err = "ENOENT"]
     ELSE IF trailing /\ f[k].kind # "dir" THEN [none EXCEPT !.err = "ENOTDIR"]
     ELSE [none EXCEPT !.isDir = f[k].kind = "dir"]

\* fs.existsSync: any failure is "does not exist"
existsSync(f, p) == statSync(f, p).err = ""

\* fs.readFile: [err, data]
readFile(f, p) ==
  LET st == statSync(f, p) IN
  IF st.err # "" THEN [err |-> st.err, data |-> ""]
  ELSE IF st.isDir THEN [err |-> "EISDIR", data |-> ""]
  ELSE IF f[st.key].mode = "noaccess" THEN [err |-> "EACCES", data |-> ""]
  ELSE [err |-> "", data |-> f[st.key].data]

\* fs.readdirSync: [err, names]; names is the set of the directory's entries
readdirSync(f, p) ==
  LET st == statSync(f, p) IN
  IF st.err # "" THEN [err |-> st.err, names |-> {}]
  ELSE IF ~st.isDir THEN [err |-> "ENOTDIR", names |-> {}]
  ELSE IF f[st.key].mode = "noaccess" THEN [err |-> "EACCES", names |-> {}]
  ELSE [err |-> "",
        names |-> {k[Len(k)] : k \in {x \in DOMAIN f :
                     Len(x) = Len(st.key) + 1 /\ SubSeq(x, 1, Len(st.key)) = st.key}}]

---------------------------------------------------------------------------
(* serve-here: generateDirectoryListing *)

RECURSIVE cmpInts(_, _)
\* lexicographic comparison of two sequences of integers: -1, 0 or 1
cmpInts(a, b) ==
  IF a = <<>> /\ b = <<>> THEN 0
  ELSE IF a = <<>> THEN -1
  ELSE IF b = <<>> THEN 1
  ELSE IF Head(a) < Head(b) THEN -1
  ELSE IF Head(a) > Head(b) THEN 1
  ELSE cmpInts(Tail(a), Tail(b))

\* collation: the primary weight of a character (punctuation, then digits,
\* then letters whatever their case)
primaryWeight(c) ==
  IF PosIn(Digits, c) > 0 THEN 1 + PosIn(Digits, c)
  ELSE IF PosIn(LowerCase, c) > 0 THEN 11 + PosIn(LowerCase, c)
  ELSE IF PosIn(UpperCase, c) > 0 THEN 11 + PosIn(UpperCase, c)
  ELSE 1

\* collation: the case weight of a character (lower case first)
caseWeight(c) == IF PosIn(UpperCase, c) > 0 THEN 1 ELSE 0

\* String.prototype.localeCompare under the default collation: the letters
\* decide first, the case of the letters only between otherwise equal names
localeCompare(a, b) ==
  LET p == cmpInts([i \in 1..Len(a) |-> primaryWeight(a[i])],
                   [i \in 1..Len(b) |-> primaryWeight(b[i])])
  IN IF p # 0 THEN p
     ELSE cmpInts([i \in 1..Len(a) |-> caseWeight(a[i])],
                  [i \in 1..Len(b) |-> caseWeight(b[i])])

\* a comparator that forgets the directories-first rule: C6 must notice it
compareByNameOnly(a, b) == localeCompare(a.name, b.name)

\* the comparator handed to items.sort: directories first, then by name
compareItems(a, b) ==
  IF a.isDir /\ ~b.isDir THEN -1
  ELSE IF ~a.isDir /\ b.isDir THEN 1
  ELSE localeCompare(a.name, b.name)

RECURSIVE insertSorted(_, _)
\* x put into the sorted sequence s behind every element not greater than it
insertSorted(s, x) ==
  IF s = <<>> THEN <<x>>
  ELSE IF compareItems(x, Head(s)) < 0 THEN <<x>> \o s
  ELSE <<Head(s)>> \o insertSorted(Tail(s), x)

RECURSIVE sortItems(_, _)
\* Array.prototype.sort (stable) with compareItems: items put one by one into acc
sortItems(items, acc) ==
  IF items = <<>> THEN acc
  ELSE sortItems(Tail(items), insertSorted(acc, Head(items)))

RECURSIVE mapItems(_, _, _, _)
\* files.map(...): one item per name, until a statSync throws.
\* [err, ops, items]: ops are the filesystem calls made
mapItems(f, dirPath, reqPath, files) ==
  IF files = <<>> THEN [err |-> "", ops |-> {}, items |-> <<>>]
  ELSE
    LET file == Head(files)
        childPath == pathJoin(dirPath, file)
        st == statSync(f, childPath)
        op == [op |-> "stat", path |-> childPath]
    IN IF st.err # "" THEN [err |-> st.err, ops |-> {op}, items |-> <<>>]
       ELSE
         LET rest == mapItems(f, dirPath, reqPath, Tail(files))
             item == [name |-> file, href |-> pathJoin(reqPath, file),
                      isDir |-> st.isDir, synthetic |-> FALSE]
         IN [err |-> rest.err, ops |-> {op} \cup rest.ops,
             items |-> IF rest.err # "" THEN <<>> ELSE <<item>> \o rest.items]

\* the synthetic ".." row of a listing: none for the reqPath "/"
parentRows(reqPath) ==
  IF reqPath # <<"/">>
  THEN <<[name |-> <<".", ".">>, href |-> dirname(reqPath),
          isDir |-> TRUE, synthetic |-> TRUE]>>
  ELSE <<>>

\* generateDirectoryListing(dirPath, reqPath) once readdirSync has returned
\* the names in the order files: [err, ops, rows]; err # "" is a thrown error.
\* rows are the table rows of the page, top to bottom (name, link and kind
\* of each; the size and date columns are left out)
generateDirectoryListing(f, dirPath, reqPath, files) ==
  LET m == mapItems(f, dirPath, reqPath, files) IN
  IF m.err # "" THEN [err |-> m.err, ops |-> m.ops, rows |-> <<>>]
  ELSE [err |-> "", ops |-> m.ops,
        rows |-> parentRows(reqPath) \o sortItems(m.items, <<>>)]

\* the orders readdirSync may return a set of names in
RECURSIVE Orders(_)
Orders(S) ==
  IF S = {} THEN {<<>>}
  ELSE UNION {{<<x>> \o t : t \in Orders(S \ {x})} : x \in S}

---------------------------------------------------------------------------
(* serve-here: the request listener of createServer *)

\* the pieces request URLs are made of
UrlParts ==
  { <<"/">>, <<"/">> \o N_d, <<"/", ".">>, <<".">>, <<"%", "2", "e">>,
    <<"/">> \o N_aJPG, <<"/">> \o N_bx, <<"%">>, <<"?">> }

\* the request URLs of the model: the request target of an HTTP request
\* line in origin form, which starts with a slash
Urls ==
  { u \in { Flatten(ps) : ps \in UNION { [1..n -> UrlParts] : n \in 1..MaxParts } } :
      u[1] = "/" }

\* a response: writeHead(status, Content-Type) and end(...).  data is the text
\* or the file bytes written; a generated listing page has listing = TRUE and
\* its table rows in rows
Response(status, ctype, data) ==
  [status |-> status, ctype |-> ctype, data |-> data, listing |-> FALSE, rows |-> <<>>]

ListingResponse(rows) ==
  [status |-> 200, ctype |-> "text/html", data |-> "", listing |-> TRUE, rows |-> rows]

\* req.url.split('?')[0], decoded
decodedPath(url) == decodeURIComponent(Split(url, "?")[1])

\* a traversal test that looks at the start of the path only: C1 must
\* notice it
isTraversalLeading(p) == MatchesAt(p, <<"/", ".", ".">>, 1)

\* no traversal test at all: C2 must notice it
isTraversalNever(p) == FALSE

\* the traversal test made on the decoded path
isTraversal(p) == includes(p, <<".", ".">>)

\* decodeURIComponent throws: the URIError leaves the listener uncaught and
\* ends the process; nothing is sent
RequestMalformed ==
  /\ pc = "idle"
  /\ \E url \in Urls :
     /\ ~decodedPath(url).ok
     /\ pc' = "crashed"
     /\ urlPath' = <<>> /\ filePath' = <<>> /\ mimeType' = ""
     /\ fsOps' = {} /\ events' = <<>> /\ res' = <<>>
     /\ reqUrl' = url /\ statErr' = ""
     /\ UNCHANGED fs
     /\ ServeOnly

\* the decoded path holds "..": 403, and the listener returns
RequestTraversal ==
  /\ pc = "idle"
  /\ \E url \in Urls :
     /\ decodedPath(url).ok
     /\ isTraversal(decodedPath(url).str)
     /\ pc' = "done"
     /\ urlPath' = decodedPath(url).str /\ filePath' = <<>> /\ mimeType' = ""
     /\ fsOps' = {} /\ events' = <<"respond">>
     /\ res' = <<Response(403, "text/plain", "403 Forbidden")>>
     /\ reqUrl' = url /\ statErr' = ""
     /\ UNCHANGED fs
     /\ ServeOnly

\* otherwise: join with the root, log the request, start fs.stat
RequestAccepted ==
  /\ pc = "idle"
  /\ \E url \in Urls :
     /\ decodedPath(url).ok
     /\ ~isTraversal(decodedPath(url).str)
     /\ pc' = "stat"
     /\ urlPath' = decodedPath(url).str
     /\ filePath' = pathJoin(rootDir, decodedPath(url).str)
     /\ mimeType' = ""
     /\ fsOps' = {[op |-> "stat", path |-> pathJoin(rootDir, decodedPath(url).str)]}
     /\ events' = <<"log", "stat">>
     /\ res' = <<>>
     /\ reqUrl' = url /\ statErr' = ""
     /\ UNCHANGED fs
     /\ ServeOnly

\* fs.stat's callback, err set: 404 whatever the error is
StatFailed ==
  /\ pc = "stat"
  /\ statSync(fs, filePath).err # ""
  /\ statErr' = statSync(fs, filePath).err
  /\ pc' = "done"
  /\ events' = Append(events, "respond")
  /\ res' = Append(res, Response(404, "text/plain", "404 Not Found"))
  /\ UNCHANGED <<fs, reqUrl, urlPath, filePath, mimeType, fsOps>>
  /\ ServeOnly

indexPathOf(p) == pathJoin(p, N_index)

\* fs.stat's callback, a directory where index.html exists: start reading it
StatDirIndex ==
  /\ pc = "stat"
  /\ statSync(fs, filePath).err = "" /\ statSync(fs, filePath).isDir
  /\ existsSync(fs, indexPathOf(filePath))
  /\ pc' = "readIndex"
  /\ fsOps' = fsOps \cup {[op |-> "exists", path |-> indexPathOf(filePath)],
                          [op |-> "readFile", path |-> indexPathOf(filePath)]}
  /\ UNCHANGED <<fs, reqUrl, statErr, urlPath, filePath, mimeType, events, res>>
  /\ ServeOnly

\* fs.stat's callback, a directory without index.html: the listing is
\* generated and sent
StatDirListing ==
  /\ pc = "stat"
  /\ statSync(fs, filePath).err = "" /\ statSync(fs, filePath).isDir
  /\ ~existsSync(fs, indexPathOf(filePath))
  /\ readdirSync(fs, filePath).err = ""
  /\ \E files \in Orders(readdirSync(fs, filePath).names) :
       LET g == generateDirectoryListing(fs, filePath, urlPath, files) IN
       /\ g.err = ""
       /\ fsOps' = fsOps \cup g.ops \cup
                     {[op |-> "exists", path |-> indexPathOf(filePath)],
                      [op |-> "readdir", path |-> filePath]}
       /\ res' = Append(res, ListingResponse(g.rows))
  /\ pc' = "done"
  /\ events' = Append(events, "respond")
  /\ UNCHANGED <<fs, reqUrl, statErr, urlPath, filePath, mimeType>>
  /\ ServeOnly

\* fs.stat's callback, a directory without index.html where readdirSync or a
\* child's statSync throws: the error leaves the callback uncaught and ends
\* the process; nothing is sent
StatDirListingThrows ==
  /\ pc = "stat"
  /\ statSync(fs, filePath).err = "" /\ statSync(fs, filePath).isDir
  /\ ~existsSync(fs, indexPathOf(filePath))
  /\ \/ /\ readdirSync(fs, filePath).err # ""
        /\ fsOps' = fsOps \cup {[op |-> "exists", path |-> indexPathOf(filePath)],
                                [op |-> "readdir", path |-> filePath]}
     \/ /\ readdirSync(fs, filePath).err = ""
        /\ \E files \in Orders(readdirSync(fs, filePath).names) :
             LET g == generateDirectoryListing(fs, filePath, urlPath, files) IN
             /\ g.err # ""
             /\ fsOps' = fsOps \cup g.ops \cup
                           {[op |-> "exists", path |-> indexPathOf(filePath)],
                            [op |-> "readdir", path |-> filePath]}
  /\ pc' = "crashed"
  /\ UNCHANGED <<fs, reqUrl, statErr, urlPath, filePath, mimeType, events, res>>
  /\ ServeOnly

\* fs.stat's callback, not a directory: pick the content type, start reading
StatFile ==
  /\ pc = "stat"
  /\ statSync(fs, filePath).err = "" /\ ~statSync(fs, filePath).isDir
  /\ pc' = "readFile"
  /\ mimeType' = mimeTypeOf(filePath)
  /\ fsOps' = fsOps \cup {[op |-> "readFile", path |-> filePath]}
  /\ UNCHANGED <<fs, reqUrl, statErr, urlPath, filePath, events, res>>
  /\ ServeOnly

\* fs.readFile's callback for index.html: 500 on error, else the bytes as text/html
ReadIndexCallback ==
  /\ pc = "readIndex"
  /\ LET r == readFile(fs, indexPathOf(filePath)) IN
     res' = Append(res,
              IF r.err # ""
              THEN Response(500, "text/plain", "500 Internal Server Error")
              ELSE Response(200, "text/html", r.data))
  /\ pc' = "done"
  /\ events' = Append(events, "respond")
  /\ UNCHANGED <<fs, reqUrl, statErr, urlPath, filePath, mimeType, fsOps>>
  /\ ServeOnly

\* a callback that reports a failed read as a missing file: C12 must notice it
ReadFileCallbackNotFound ==
  /\ pc = "readFile"
  /\ LET r == readFile(fs, filePath) IN
     res' = Append(res,
              IF r.err # ""
              THEN Response(404, "text/plain", "404 Not Found")
              ELSE Response(200, mimeType, r.data))
  /\ pc' = "done"
  /\ events' = Append(events, "respond")
  /\ UNCHANGED <<fs, reqUrl, statErr, urlPath, filePath, mimeType, fsOps>>
  /\ ServeOnly

\* fs.readFile's callback for a regular file: 500 on error, else the bytes
ReadFileCallback ==
  /\ pc = "readFile"
  /\ LET r == readFile(fs, filePath) IN
     res' = Append(res,
              IF r.err # ""
              THEN Response(500, "text/plain", "500 Internal Server Error")
              ELSE Response(200, mimeType, r.data))
  /\ pc' = "done"
  /\ events' = Append(events, "respond")
  /\ UNCHANGED <<fs, reqUrl, statErr, urlPath, filePath, mimeType, fsOps>>
  /\ ServeOnly

\* another process changes the filesystem while a read is pending (a change
\* before fs.stat has answered is a request on the changed filesystem)
FsChange ==
  /\ pc \in {"readIndex", "readFile"}
  /\ fs' \in FsStates \ {fs}
  /\ UNCHANGED <<pc, reqUrl, statErr, urlPath, filePath, mimeType, fsOps, events, res>>
  /\ ServeOnly

ServeNext ==
  \/ RequestMalformed
  \/ RequestTraversal
  \/ RequestAccepted
  \/ StatFailed
  \/ StatDirIndex
  \/ StatDirListing
  \/ StatDirListingThrows
  \/ StatFile
  \/ ReadIndexCallback
  \/ ReadFileCallback
  \/ FsChange

---------------------------------------------------------------------------
(* ping-hosts: main() and pingHost() *)

DEFAULT_HOSTS == <<"google.com", "github.com", "cloudflare.com">>

\* the words of a command line, and the lines of a hosts file
ArgWords  == {"-h", "-f", "hostA", "hostB"}
FileLines == {"hostA", "hostB", "", "# note"}

BoundedSeqs(S, n) == UNION { [1..k -> S] : k \in 0..n }

\* Array.prototype.findIndex for "-f" / "--file", 0 when absent (1-based)
fileIndex(args) == IndexOf(args, "-f")

\* the lines of the hosts file that are kept: trimmed, not empty, no comment
keptLines(lines) == SelectSeq(lines, LAMBDA l : l # "" /\ l # "# note")

\* the number of unreachable hosts among the results
unavailable(results) == Cardinality({i \in 1..Len(results) : ~results[i].success})

\* an exit code that is 1 only when every host is down: C9 must notice it
exitCodeAllDown(results) ==
  IF unavailable(results) = Len(results) THEN 1 ELSE 0

\* the code main() exits with once the results are in
exitCodeFor(results) == IF unavailable(results) > 0 THEN 1 ELSE 0

\* formatResult: the line printed for one result
formatResult(r) == [line |-> "result", host |-> r.host, success |-> r.success]

\* -h / --help: the usage text, and main returns
PingHelp(args) ==
  /\ ppc = "start"
  /\ IndexOf(args, "-h") > 0
  /\ output' = Append(output, [line |-> "help", host |-> "", success |-> TRUE])
  /\ ppc' = "returned"
  /\ exitCode' = 0
  /\ UNCHANGED <<hosts, ping>>
  /\ PingOnly

\* -f without a file name, or a file that cannot be read: an error, exit 1
PingFileError(args) ==
  /\ ppc = "start"
  /\ IndexOf(args, "-h") = 0
  /\ fileIndex(args) > 0
  /\ output' = Append(output, [line |-> "error reading file", host |-> "", success |-> FALSE])
  /\ ppc' = "exited"
  /\ exitCode' = 1
  /\ UNCHANGED <<hosts, ping>>
  /\ PingOnly

\* the host list main() settles on, given the lines of the hosts file
hostsOf(args, lines) ==
  IF fileIndex(args) > 0 THEN keptLines(lines)
  ELSE IF Len(args) > 0 THEN args
  ELSE DEFAULT_HOSTS

\* a hosts file without a host: an error, exit 1
PingNoHosts(args, lines) ==
  /\ ppc = "start"
  /\ IndexOf(args, "-h") = 0
  /\ fileIndex(args) > 0 /\ fileIndex(args) < Len(args)
  /\ hostsOf(args, lines) = <<>>
  /\ output' = Append(output, [line |-> "error: no hosts to check", host |-> "", success |-> FALSE])
  /\ ppc' = "exited"
  /\ exitCode' = 1
  /\ UNCHANGED <<hosts, ping>>
  /\ PingOnly

\* hosts.map(pingHost): every host's ping command is started, then main
\* awaits Promise.all
PingStart(args, lines) ==
  /\ ppc = "start"
  /\ IndexOf(args, "-h") = 0
  /\ fileIndex(args) > 0 => fileIndex(args) < Len(args)
  /\ hostsOf(args, lines) # <<>>
  /\ hosts' = hostsOf(args, lines)
  /\ ping' = [i \in 1..Len(hostsOf(args, lines)) |-> "running"]
  /\ output' = Append(output, [line |-> "checking", host |-> "", success |-> TRUE])
  /\ ppc' = "pinging"
  /\ UNCHANGED exitCode
  /\ PingOnly

\* one host's ping command ends: exit status 0 resolves execAsync, anything
\* else rejects it and pingHost catches the rejection
PingDone(i, ok) ==
  /\ ppc = "pinging"
  /\ i \in DOMAIN ping /\ ping[i] = "running"
  /\ ping' = [ping EXCEPT ![i] = IF ok THEN "ok" ELSE "fail"]
  /\ UNCHANGED <<ppc, hosts, output, exitCode>>
  /\ PingOnly

\* results handed over last host first, not in the hosts' order: C14 must
\* notice it
resultsReversed(h, p) ==
  [i \in 1..Len(h) |->
     [host |-> h[Len(h) + 1 - i], success |-> p[Len(h) + 1 - i] = "ok"]]

\* the results Promise.all resolves with: one per host, in the hosts' order
resultsOf(h, p) == [i \in 1..Len(h) |-> [host |-> h[i], success |-> p[i] = "ok"]]

\* Promise.all has resolved: the result lines, the summary, process.exit
PingReport ==
  /\ ppc = "pinging"
  /\ \A i \in DOMAIN ping : ping[i] # "running"
  /\ LET results == resultsOf(hosts, ping) IN
     /\ output' = output
                    \o [i \in 1..Len(results) |-> formatResult(results[i])]
                    \o <<[line |-> "summary", host |-> "", success |-> unavailable(results) = 0]>>
     /\ exitCode' = exitCodeFor(results)
  /\ ppc' = "exited"
  /\ UNCHANGED <<hosts, ping>>
  /\ PingOnly

PingNext ==
  \/ \E args \in BoundedSeqs(ArgWords, MaxHosts) : PingHelp(args)
  \/ \E args \in BoundedSeqs(ArgWords, MaxHosts) : PingFileError(args)
  \/ \E args \in BoundedSeqs(ArgWords, MaxHosts), lines \in BoundedSeqs(FileLines, MaxHosts) :
       PingNoHosts(args, lines)
  \/ \E args \in BoundedSeqs(ArgWords, MaxHosts), lines \in BoundedSeqs(FileLines, MaxHosts) :
       PingStart(args, lines)
  \/ \E i \in DOMAIN ping, ok \in BOOLEAN : PingDone(i, ok)
  \/ PingReport

---------------------------------------------------------------------------
(* free-memory: main(), clear_cache and clear_swap.  Memory is counted in  *)
(* abstract units; ran lists the commands and messages of the run.         *)

IsLinux(os) == os = "linux-gnu"

\* a test that lets equal readings through: C10 must notice it
swapAbortsStrict(avail, used) == avail < used

\* the test that aborts clear_swap: [ "$mem_available" -le "$swap_used" ]
swapAborts(avail, used) == avail <= used

\* get_memory_info, as far as clear_swap uses it: MemAvailable and
\* SwapTotal - SwapFree as the machine reports them now
GetMemoryInfo ==
  /\ mem_available' = sysAvail
  /\ swap_used' = sysSwap

\* display_memory at the start of main
MemDisplay ==
  /\ mpc = "start"
  /\ GetMemoryInfo
  /\ ran' = Append(ran, "display")
  /\ mpc' = "cache"
  /\ UNCHANGED <<ostype, flags, sysAvail, sysSwap>>
  /\ MemOnly

\* [ "$do_cache" = true ] && clear_cache: drop_caches on Linux, purge elsewhere
MemClearCache ==
  /\ mpc = "cache"
  /\ ran' = IF flags.cache
            THEN Append(ran, IF IsLinux(ostype) THEN "drop_caches" ELSE "purge")
            ELSE ran
  /\ mpc' = IF flags.swap THEN "swap" ELSE "after"
  /\ UNCHANGED <<ostype, flags, sysAvail, sysSwap, mem_available, swap_used>>
  /\ MemOnly

\* clear_swap off Linux: a note, nothing is run
MemSwapNote ==
  /\ mpc = "swap"
  /\ ~IsLinux(ostype)
  /\ ran' = Append(ran, "note")
  /\ mpc' = "after"
  /\ UNCHANGED <<ostype, flags, sysAvail, sysSwap, mem_available, swap_used>>
  /\ MemOnly

\* clear_swap on Linux: get_memory_info, then the test; aborted (return 1)
\* when it succeeds
MemSwapAbort ==
  /\ mpc = "swap"
  /\ IsLinux(ostype)
  /\ GetMemoryInfo
  /\ swapAborts(sysAvail, sysSwap)
  /\ ran' = Append(ran, "aborted")
  /\ mpc' = "after"
  /\ UNCHANGED <<ostype, flags, sysAvail, sysSwap>>
  /\ MemOnly

\* clear_swap on Linux, the test fails: the "flushing" message, and sudo
\* swapoff -a is started
MemSwapProceed ==
  /\ mpc = "swap"
  /\ IsLinux(ostype)
  /\ GetMemoryInfo
  /\ ~swapAborts(sysAvail, sysSwap)
  /\ ran' = Append(ran, "flushing")
  /\ mpc' = "swapoff"
  /\ UNCHANGED <<ostype, flags, sysAvail, sysSwap>>
  /\ MemOnly

\* sudo swapoff -a runs: it moves the swap in use into RAM, or fails (no
\* sudo, not enough memory by now); swapon -a follows only a success
MemSwapoff(ok) ==
  /\ mpc = "swapoff"
  /\ ok => sysAvail >= sysSwap
  /\ ran' = IF ok THEN ran \o <<"swapoff", "swapon", "cleared">>
                  ELSE ran \o <<"swapoff", "cleared">>
  /\ sysAvail' = IF ok THEN sysAvail - sysSwap ELSE sysAvail
  /\ sysSwap' = IF ok THEN 0 ELSE sysSwap
  /\ mpc' = "after"
  /\ UNCHANGED <<ostype, flags, mem_available, swap_used>>
  /\ MemOnly

\* the closing display_memory, when something was asked for
MemFinish ==
  /\ mpc = "after"
  /\ IF flags.cache \/ flags.swap
     THEN GetMemoryInfo /\ ran' = Append(ran, "display")
     ELSE UNCHANGED <<mem_available, swap_used, ran>>
  /\ mpc' = "done"
  /\ UNCHANGED <<ostype, flags, sysAvail, sysSwap>>
  /\ MemOnly

\* the machine's memory moves on while the script runs
MemDrift ==
  /\ mpc \in {"cache", "swap", "swapoff"}
  /\ sysAvail' \in 0..MaxMem
  /\ sysSwap' \in 0..MaxMem
  /\ <<sysAvail', sysSwap'>> # <<sysAvail, sysSwap>>
  /\ UNCHANGED <<mpc, ostype, flags, mem_available, swap_used, ran>>
  /\ MemOnly

MemNext ==
  \/ MemDisplay
  \/ MemClearCache
  \/ MemSwapNote
  \/ MemSwapAbort
  \/ MemSwapProceed
  \/ \E ok \in BOOLEAN : MemSwapoff(ok)
  \/ MemFinish
  \/ MemDrift

---------------------------------------------------------------------------
(* free-memory: draw_bar *)

\* local width=40
width == 40

\* awk "BEGIN {printf \"%.0f\", $percent * $width / 100}": the nearest
\* integer (p is in tenths; no percentage with one decimal falls on a half)
filledOf(p) == (2 * p * width + 1000) \div 2000

\* the colour draw_bar picks: green, yellow above 70, red above 90
colorOf(p) ==
  IF p > 900 THEN "RED"
  ELSE IF p > 700 THEN "YELLOW"
  ELSE "GREEN"

\* draw_bar "$percent"
DrawBar ==
  /\ bpc = "start"
  /\ filled' = filledOf(percent)
  /\ color' = colorOf(percent)
  /\ bpc' = "drawn"
  /\ UNCHANGED percent
  /\ BarOnly

BarNext == DrawBar

---------------------------------------------------------------------------
(* Specifications: each tool is a program of its own; while one runs, the  *)
(* other two have not been started                                         *)

\* serve-here: the server is up on some filesystem, no request received yet
ServeInit ==
  /\ fs \in FsStates
  /\ pc = "idle"
  /\ reqUrl = <<>> /\ statErr = ""
  /\ urlPath = <<>> /\ filePath = <<>> /\ mimeType = ""
  /\ fsOps = {} /\ events = <<>> /\ res = <<>>
  /\ ppc = "off" /\ hosts = <<>> /\ ping = <<>> /\ output = <<>> /\ exitCode = -1
  /\ mpc = "off" /\ ostype = "linux-gnu" /\ flags = [cache |-> FALSE, swap |-> FALSE]
  /\ sysAvail = 0 /\ sysSwap = 0 /\ mem_available = 0 /\ swap_used = 0
  /\ ran = <<>>
  /\ bpc = "off" /\ percent = 0 /\ filled = 0 /\ color = ""

\* ping-hosts: main() is about to run
PingInit ==
  /\ ppc = "start" /\ hosts = <<>> /\ ping = <<>> /\ output = <<>> /\ exitCode = -1
  /\ fs = BaseFs /\ pc = "off"
  /\ reqUrl = <<>> /\ statErr = ""
  /\ urlPath = <<>> /\ filePath = <<>> /\ mimeType = ""
  /\ fsOps = {} /\ events = <<>> /\ res = <<>>
  /\ mpc = "off" /\ ostype = "linux-gnu" /\ flags = [cache |-> FALSE, swap |-> FALSE]
  /\ sysAvail = 0 /\ sysSwap = 0 /\ mem_available = 0 /\ swap_used = 0
  /\ ran = <<>>
  /\ bpc = "off" /\ percent = 0 /\ filled = 0 /\ color = ""

\* free-memory: main() is about to run with the options parsed into flags, on
\* some machine
MemInit ==
  /\ mpc = "start"
  /\ ostype \in {"linux-gnu", "darwin"}
  /\ flags \in [cache : BOOLEAN, swap : BOOLEAN]
  /\ sysAvail \in 0..MaxMem
  /\ sysSwap \in 0..MaxMem
  /\ mem_available = 0 /\ swap_used = 0
  /\ ran = <<>>
  /\ fs = BaseFs /\ pc = "off"
  /\ reqUrl = <<>> /\ statErr = ""
  /\ urlPath = <<>> /\ filePath = <<>> /\ mimeType = ""
  /\ fsOps = {} /\ events = <<>> /\ res = <<>>
  /\ ppc = "off" /\ hosts = <<>> /\ ping = <<>> /\ output = <<>> /\ exitCode = -1
  /\ bpc = "off" /\ percent = 0 /\ filled = 0 /\ color = ""

\* free-memory's draw_bar: about to be called with some percentage
BarInit ==
  /\ bpc = "start"
  /\ percent \in 0..MaxTenths
  /\ filled = 0 /\ color = ""
  /\ fs = BaseFs /\ pc = "off"
  /\ reqUrl = <<>> /\ statErr = ""
  /\ urlPath = <<>> /\ filePath = <<>> /\ mimeType = ""
  /\ fsOps = {} /\ events = <<>> /\ res = <<>>
  /\ ppc = "off" /\ hosts = <<>> /\ ping = <<>> /\ output = <<>> /\ exitCode = -1
  /\ mpc = "off" /\ ostype = "linux-gnu" /\ flags = [cache |-> FALSE, swap |-> FALSE]
  /\ sysAvail = 0 /\ sysSwap = 0 /\ mem_available = 0 /\ swap_used = 0
  /\ ran = <<>>

\* serve-here
Spec == ServeInit /\ [][ServeNext]_vars

\* ping-hosts
PingSpec == PingInit /\ [][PingNext]_vars

\* free-memory
MemSpec == MemInit /\ [][MemNext]_vars

\* free-memory's draw_bar
BarSpec == BarInit /\ [][BarNext]_vars

---------------------------------------------------------------------------
(* Properties of free-memory's usage bars *)

\* C11: a usage bar is green when the percentage is below 70, yellow when
\* it is from above 70 to below 85, and red when it is above 85
C11_BarColours ==
  bpc = "drawn"
  => /\ percent < 700 => color = "GREEN"
     /\ (percent > 700 /\ percent < 850) => color = "YELLOW"
     /\ percent > 850 => color = "RED"

---------------------------------------------------------------------------
(* Properties of serve-here *)

Range(s) == {s[i] : i \in 1..Len(s)}

\* the request is over: answered, or the process died on it
Finished == pc \in {"done", "crashed"}

\* does the path hold a ".." segment
HasDotDotSegment(p) == <<".", ".">> \in Range(Split(p, "/"))

\* is the path, read as text, the root directory or below it
InsideRoot(p) ==
  /\ ~HasDotDotSegment(p)
  /\ \/ p = rootDir
     \/ MatchesAt(p, rootDir \o <<"/">>, 1)

\* the path the request designates, when its URL decodes
DesignatedPath == normalize(rootDir \o <<"/">> \o decodedPath(reqUrl).str)

\* the handler looked for index.html, and found it
LookedForIndex == \E o \in fsOps : o.op = "exists"
FoundIndex ==
  \E o \in fsOps : o.op = "readFile" /\ o.path = indexPathOf(filePath)

\* the outcome a response stands for
Outcome(r) ==
  IF r.status = 403 /\ r.ctype = "text/plain" THEN "Rejected-Traversal"
  ELSE IF r.status = 404 /\ r.ctype = "text/plain" THEN "Not-Found"
  ELSE IF r.status = 500 /\ r.ctype = "text/plain" THEN "Server-Fault"
  ELSE IF r.status = 200 /\ r.listing THEN "Served-Listing"
  ELSE IF r.status = 200 /\ FoundIndex THEN "Served-Index"
  ELSE IF r.status = 200 THEN "Served-File"
  ELSE "none"

\* C1: a request whose decoded, query-stripped path holds a ".." segment is
\* answered 403 text/plain, on every filesystem, and no filesystem call is
\* made for it
C1_TraversalRejected ==
  (pc \notin {"idle", "off"} /\ decodedPath(reqUrl).ok
     /\ HasDotDotSegment(decodedPath(reqUrl).str))
  => /\ pc = "done"
     /\ res = <<Response(403, "text/plain", "403 Forbidden")>>
     /\ fsOps = {}

\* C1 happens: a URL-encoded ".." that would lead to an existing file
\* outside the root has been rejected
C1_Witness ==
  /\ pc = "done"
  /\ includes(reqUrl, <<"%">>)
  /\ HasDotDotSegment(urlPath)
  /\ KeyOf(DesignatedPath) = <<N_d>>
  /\ <<N_d>> \in DOMAIN fs
  /\ Len(res) = 1 /\ res[1].status = 403

\* C2: every path handed to a filesystem call (stat, existsSync, readFile,
\* readdirSync, the children's statSync) is the root directory or below it
C2_PathsInsideRoot == \A o \in fsOps : InsideRoot(o.path)

\* C2 happens: a listing was sent, after calls of all four kinds but readFile
C2_Witness ==
  /\ pc = "done" /\ Len(res) = 1 /\ res[1].listing
  /\ {o.op : o \in fsOps} = {"stat", "exists", "readdir"}
  /\ \E o \in fsOps : o.op = "stat" /\ o.path # filePath
  /\ \E o \in fsOps : o.op = "readdir" /\ o.path # rootDir

\* C3: when fs.stat fails, the answer is 404 if there is no entry and 500 for
\* every other failure
C3_NotFoundVersusFault ==
  (pc = "done" /\ statErr # "")
  => /\ Len(res) = 1
     /\ statErr \in {"ENOENT", "ENOTDIR"} => res[1].status = 404
     /\ statErr \notin {"ENOENT", "ENOTDIR"} => res[1].status = 500

\* C4: no request ends in an uncaught error, and a request that is over has
\* exactly one response, of one of the six outcomes
C4_AlwaysOneResponse ==
  /\ pc # "crashed"
  /\ pc = "done" =>
       /\ Len(res) = 1
       /\ Outcome(res[1]) \in {"Served-File", "Served-Listing", "Served-Index",
                               "Rejected-Traversal", "Not-Found", "Server-Fault"}

\* C5: a request for a directory where the handler found index.html ends with
\* 200 text/html and the bytes of index.html (or with 500, should the read
\* of index.html fail), never with a listing; a request for a directory where
\* it found none ends with a generated listing
C5_IndexOrListing ==
  (Finished /\ LookedForIndex)
  => /\ pc = "done" /\ Len(res) = 1
     /\ FoundIndex =>
          \/ res[1] = Response(200, "text/html", "bytes of index.html")
          \/ res[1] = Response(500, "text/plain", "500 Internal Server Error")
     /\ ~FoundIndex => res[1].status = 200 /\ res[1].listing

\* the rows of a listing that stand for directory entries
EntryRows(rows) == SelectSeq(rows, LAMBDA r : ~r.synthetic)

\* alphabetical order of names: letter by letter, whatever the case
AlphaRank(c) ==
  LET l == toLowerCase(<<c>>)[1] IN
  IF PosIn(LowerCase, l) > 0 THEN 100 + PosIn(LowerCase, l)
  ELSE IF PosIn(Digits, l) > 0 THEN 50 + PosIn(Digits, l)
  ELSE 0
AlphaLeq(a, b) ==
  cmpInts([i \in 1..Len(a) |-> AlphaRank(a[i])], [i \in 1..Len(b) |-> AlphaRank(b[i])]) <= 0

\* C6: a generated listing has exactly one entry per child of the directory,
\* the directories before the files, each group in alphabetical order
C6_ListingOrder ==
  (pc = "done" /\ Len(res) = 1 /\ res[1].listing)
  => LET items == EntryRows(res[1].rows)
         names == readdirSync(fs, filePath).names
     IN /\ Len(items) = Cardinality(names)
        /\ {items[i].name : i \in 1..Len(items)} = names
        /\ \A i \in 1..Len(items) :
             items[i].isDir = statSync(fs, pathJoin(filePath, items[i].name)).isDir
        /\ \A i, j \in 1..Len(items) :
             i < j => /\ items[j].isDir => items[i].isDir
                      /\ items[i].isDir = items[j].isDir
                           => AlphaLeq(items[i].name, items[j].name)

\* C6 happens: a listing with two directories and two files was sent
C6_Witness ==
  /\ pc = "done" /\ Len(res) = 1 /\ res[1].listing
  /\ LET items == EntryRows(res[1].rows) IN
     /\ Cardinality({i \in 1..Len(items) : items[i].isDir}) >= 2
     /\ Cardinality({i \in 1..Len(items) : ~items[i].isDir}) >= 2

\* C7: the listing of the root has no ".." row; the listing of any other
\* directory has exactly one, as its first row, linking to the directory's
\* parent
C7_ParentEntry ==
  (pc = "done" /\ Len(res) = 1 /\ res[1].listing)
  => LET rows == res[1].rows
         D == KeyOf(filePath)
         syn == {i \in 1..Len(rows) : rows[i].synthetic}
     IN IF D = KeyOf(rootDir) THEN syn = {}
        ELSE /\ syn = {1}
             /\ KeyOf(pathJoin(rootDir, rows[1].href)) = SubSeq(D, 1, Len(D) - 1)

\* C8: a request that designates a readable regular file below the root ends
\* with 200, the file's bytes, and the content type of the table for the
\* lower-cased extension of its name (application/octet-stream if none)
C8_FileContentType ==
  (Finished /\ decodedPath(reqUrl).ok
     /\ ~HasDotDotSegment(decodedPath(reqUrl).str)
     /\ InsideRoot(DesignatedPath)
     /\ statSync(fs, DesignatedPath).err = ""
     /\ ~statSync(fs, DesignatedPath).isDir
     /\ readFile(fs, DesignatedPath).err = "")
  => /\ pc = "done" /\ Len(res) = 1
     /\ res[1] = Response(200,
                   lookupMime(toLowerCase(extname(DesignatedPath))),
                   readFile(fs, DesignatedPath).data)

\* C12: while a read of a file or of index.html is pending nothing has been
\* sent, and when the read fails (the file was deleted or made unreadable
\* after the stat, or cannot be read at all) the one response is 500
\* text/plain: not 404, not 200, not a listing
C12_ReadFailureIsFault ==
  /\ pc \in {"readIndex", "readFile"} => res = <<>>
  /\ (pc = "done"
        /\ \E o \in fsOps : o.op = "readFile" /\ readFile(fs, o.path).err # "")
     => res = <<Response(500, "text/plain", "500 Internal Server Error")>>

\* C12 happens: the stat of a regular file succeeded, the file was deleted
\* before the read, and the request ended with 500
C12_Witness ==
  /\ pc = "done" /\ statErr = ""
  /\ [op |-> "readFile", path |-> filePath] \in fsOps
  /\ KeyOf(filePath) \notin DOMAIN fs
  /\ Len(res) = 1 /\ res[1].status = 500

\* C13: every request is logged, and the log entry is the first thing that
\* happens for it: before the traversal test decides, before any filesystem
\* call and before the response
C13_LoggedFirst ==
  pc \notin {"idle", "off"}
  => /\ events # <<>>
     /\ events[1] = "log"

---------------------------------------------------------------------------
(* Properties of ping-hosts *)

\* C9: once the pings were started, the exit code is set only when no ping
\* is running any more, and it is 1 if a host was unreachable and 0 if all
\* were reachable
C9_ExitCode ==
  (exitCode # -1 /\ hosts # <<>>)
  => /\ \A i \in DOMAIN ping : ping[i] # "running"
     /\ (\E i \in DOMAIN ping : ping[i] = "fail") => exitCode = 1
     /\ (\A i \in DOMAIN ping : ping[i] = "ok") => exitCode = 0

\* C9 happens: exit 1 after one host answered and another did not
C9_Witness ==
  /\ ppc = "exited" /\ exitCode = 1
  /\ \E i, j \in DOMAIN ping : ping[i] = "ok" /\ ping[j] = "fail"

\* the per-host result lines among the lines printed
ResultLines(out) == SelectSeq(out, LAMBDA l : l.line = "result")

\* C14: once pinging, every host's ping has been started; no result line is
\* printed while main waits or while any ping is running; and at exit there
\* is exactly one result line per host, in the order of the hosts, each
\* with its own host's outcome
C14_ResultsInOrder ==
  /\ ppc = "pinging"
       => /\ DOMAIN ping = DOMAIN hosts
          /\ ResultLines(output) = <<>>
  /\ (\E i \in DOMAIN ping : ping[i] = "running") => ResultLines(output) = <<>>
  /\ (ppc = "exited" /\ hosts # <<>>)
       => ResultLines(output) =
            [i \in 1..Len(hosts) |->
               [line |-> "result", host |-> hosts[i], success |-> ping[i] = "ok"]]

\* C14 happens: two different hosts, the first down and the second up, and
\* their two result lines printed
C14_Witness ==
  /\ ppc = "exited" /\ Len(hosts) >= 2
  /\ hosts[1] # hosts[2]
  /\ ping[1] = "fail" /\ ping[2] = "ok"
  /\ Len(ResultLines(output)) = Len(hosts)

---------------------------------------------------------------------------
(* Properties of free-memory *)

\* C10: on Linux, when clear_swap read less available RAM than swap in use,
\* it aborted and ran neither swapoff nor swapon; swapoff is started and run
\* only after a reading with more available RAM than swap in use
C10_SwapGuard ==
  (IsLinux(ostype) /\ flags.swap /\ mpc \in {"swapoff", "after"})
  => /\ mem_available < swap_used
          => /\ mpc = "after"
             /\ "aborted" \in Range(ran)
             /\ "swapoff" \notin Range(ran) /\ "swapon" \notin Range(ran)
     /\ (mpc = "swapoff" \/ "swapoff" \in Range(ran))
          => mem_available > swap_used

\* C10 happens: clear_swap aborted on a reading of less RAM than swap
C10_Witness ==
  /\ IsLinux(ostype) /\ flags.swap /\ mpc = "after"
  /\ mem_available < swap_used
  /\ "aborted" \in Range(ran)

=============================================================================
